---- MODULE Spec2Model ----
(***************************************************************************)
(* Leave management: the employee directory, the balance ledger, the       *)
(* overlap check and the leave request engine of app/repository.py, the    *)
(* REST handlers of app/api.py and the MCP tools of app/mcp_server.py.     *)
(*                                                                         *)
(* Day quantities are Python floats in the source.  Here a quantity v      *)
(* stands for v / Unit days, so that half days (Unit = 2) are exact.       *)
(* Dates are day ordinals (date.toordinal()).                              *)
(***************************************************************************)
EXTENDS Integers, Sequences, FiniteSets, TLC

\* ------------------------------------------------------------------ bounds
\* resolution of a day quantity: v stands for v / Unit days
Unit == 2
\* start dates are drawn from 1 .. MaxDate
MaxDate == 3
\* rows the leave_requests table may hold
MaxRequests == 2
\* credit_leave and initialize_employee_balance calls made
MaxAdjust == 2
\* apply_leave / credit_leave calls the worker threads make together
MaxCalls == 3

\* ------------------------------------------------------------------ domain.py
LeaveTypeEnum == {"CL", "PL", "ML", "OTHER"}

LeaveStatusEnum == {"APPROVED", "REJECTED", "PENDING"}

DEFAULT_CL == 10 * Unit

DEFAULT_PL == 15 * Unit

DEFAULT_ML == 90 * Unit

DEFAULT_OTHER == 0 * Unit

\* ------------------------------------------------------------------ inputs
Dates == 1 .. MaxDate

\* day counts a caller of the repository sends (apply_leave: "must be
\* positive"): a fraction of a day, 1 and 2 days
DaysIn == {1, Unit, 2 * Unit}

\* an employee id that no row of the directory carries
UnknownIds == {"e9"}

\* leave types a caller sends
TypesIn == {"CL", "OTHER"}

\* employee ids the ledger is called with
LedgerIds == {"e1", "e2"}

\* apply_leave calls: every leave type, day count and start date for e1, and
\* one-day requests for e2
ApplyIn ==
    ({"e1"} \X TypesIn \X DaysIn \X Dates)
        \cup ({"e2"} \X TypesIn \X {Unit} \X {1})

\* credit_leave calls: one day of either type for e1, one day for e2
CreditIn == ({"e1"} \X TypesIn \X {Unit}) \cup {<<"e2", "OTHER", Unit>>}

\* initialize_employee_balance calls: (casual, privilege, medical, other)
InitializeIn ==
    {<<"e1", Unit, 2 * Unit, 3 * Unit, 0>>, <<"e1", 2 * Unit, Unit, Unit, Unit>>,
     <<"e2", Unit, Unit, Unit, Unit>>}

\* ------------------------------------------------------------------ models.py
\* the mapped columns of EmployeeORM: the keyword arguments its declarative
\* constructor accepts, and the attributes an instance has
EmployeeColumns == {"id", "username", "password", "name", "email", "department", "is_active"}

\* LeaveBalanceORM(employee_id, cl, pl, ml, other), without the key
BalanceRow(cl, pl, ml, other) == [cl |-> cl, pl |-> pl, ml |-> ml, other |-> other]

DefaultBalance == BalanceRow(DEFAULT_CL, DEFAULT_PL, DEFAULT_ML, DEFAULT_OTHER)

\* ------------------------------------------------------------------ state
VARIABLES
    employees,   \* table employees: a set of rows
    balances,    \* table leave_balances: employee_id -> row (primary key)
    requests,    \* table leave_requests: the rows in insertion order, id = position
    TOKENS,      \* mcp_server.TOKENS: token -> employee id
    last,        \* the outcome of the last call: operation and result
    credited,    \* history: days credited so far, per employee and leave type
    overwritten, \* history: employees whose balance initialize has set
    nadjust,     \* history: credit_leave and initialize_employee_balance calls made
    pc,          \* per worker thread: where it is in its call
    call,        \* per worker thread: the arguments of its call
    loaded,      \* per worker thread: the balance row its session has loaded
    ncalls,      \* history: calls the worker threads have begun
    startBal,    \* history: balances when the first worker call began
    sessions     \* SessionLocal() sessions that are open

vars == <<employees, balances, requests, TOKENS, last, credited, overwritten,
          nadjust, pc, call, loaded, ncalls, startBal, sessions>>

dbVars == <<employees, balances, requests>>

threadVars == <<pc, call, loaded, ncalls, startBal>>

historyVars == <<credited, overwritten, nadjust>>

\* ------------------------------------------------------------------ deps.py, mcp_server.py: the session of a call
\* the results of a call that leave its handler as an exception: the
\* HTTPException of the dependencies and of the 403, a request the framework
\* refuses, and what no except clause catches
RaisedCodes == {"401", "403", "422", "500", "IntegrityError"}

exit_of(code) == IF code \in RaisedCodes THEN "raise" ELSE "return"

\* A generator `db = SessionLocal(); try: yield db; finally: db.close()` that
\* is suspended at its yield is resumed by next(), by throw(exc), or by close(),
\* which raises GeneratorExit at the yield.  The code after the yield runs when
\* next() resumes it; a finally clause runs however it is resumed.  The number
\* of open sessions afterwards:
generator_left(open, resumed_by, in_finally) ==
    IF resumed_by = "next" \/ in_finally THEN open - 1 ELSE open

\* get_db up to its yield
get_db_enter(open) == open + 1

\* get_db as a dependency: when the request ends the framework resumes the
\* generator, with throw() when the request ended in an exception
get_db_exit(open, exit) ==
    generator_left(open, IF exit = "raise" THEN "throw" ELSE "next", TRUE)

\* a request served with Depends(get_db)
get_db(open, exit) == get_db_exit(get_db_enter(open), exit)

\* a db_session_ctx that closes the session after the yield, outside a finally
db_session_ctx_no_finally(open, exit) == generator_left(open + 1, "close", FALSE)

\* `for db in db_session_ctx(): ...`, left by a return or by an exception in
\* its body: next() is not called again, and the generator is closed when the
\* iterator of the loop is released, which is when the loop is left
db_session_ctx(open, exit) == generator_left(open + 1, "close", TRUE)

\* ------------------------------------------------------------------ repository.py: LeaveRepository
\* db.get(LeaveBalanceORM, employee_id) is None
no_balance(bal, employee_id) == employee_id \notin DOMAIN bal

\* a lookup that writes the default allocation over the row it finds
get_or_create_balance_reset(bal, employee_id) ==
    (employee_id :> DefaultBalance) @@ [e \in DOMAIN bal \ {employee_id} |-> bal[e]]

\* get_or_create_balance: the table after the call (a new row is committed at once)
get_or_create_balance(bal, employee_id) ==
    IF no_balance(bal, employee_id)
    THEN (employee_id :> DefaultBalance) @@ bal
    ELSE bal

\* an initialize that adds the given values to the row it finds
initialize_adds(bal, employee_id, casual, privilege, medical, other) ==
    IF no_balance(bal, employee_id)
    THEN (employee_id :> BalanceRow(casual, privilege, medical, other)) @@ bal
    ELSE [bal EXCEPT ![employee_id] =
              BalanceRow(@.cl + casual, @.pl + privilege, @.ml + medical, @.other + other)]

\* initialize_employee_balance: the table after the call
initialize_employee_balance(bal, employee_id, casual, privilege, medical, other) ==
    IF no_balance(bal, employee_id)
    THEN (employee_id :> BalanceRow(casual, privilege, medical, other)) @@ bal
    ELSE [bal EXCEPT ![employee_id] = [@ EXCEPT !.cl = casual, !.pl = privilege,
                                                !.ml = medical, !.other = other]]

get_available_days(balance, leave_type) ==
    IF leave_type = "CL" THEN balance.cl
    ELSE IF leave_type = "PL" THEN balance.pl
    ELSE IF leave_type = "ML" THEN balance.ml
    ELSE balance.other

\* deduct_days with the branch of OTHER debiting the medical balance
deduct_days_wrong_field(balance, leave_type, days) ==
    IF leave_type = "CL" THEN [balance EXCEPT !.cl = @ - days]
    ELSE IF leave_type = "PL" THEN [balance EXCEPT !.pl = @ - days]
    ELSE IF leave_type = "ML" THEN [balance EXCEPT !.ml = @ - days]
    ELSE IF leave_type = "OTHER" THEN [balance EXCEPT !.ml = @ - days]
    ELSE balance

deduct_days(balance, leave_type, days) ==
    IF leave_type = "CL" THEN [balance EXCEPT !.cl = @ - days]
    ELSE IF leave_type = "PL" THEN [balance EXCEPT !.pl = @ - days]
    ELSE IF leave_type = "ML" THEN [balance EXCEPT !.ml = @ - days]
    ELSE IF leave_type = "OTHER" THEN [balance EXCEPT !.other = @ - days]
    ELSE balance

\* the in-memory part of credit_leave: balance.<field> += days
add_days(balance, leave_type, days) ==
    IF leave_type = "CL" THEN [balance EXCEPT !.cl = @ + days]
    ELSE IF leave_type = "PL" THEN [balance EXCEPT !.pl = @ + days]
    ELSE IF leave_type = "ML" THEN [balance EXCEPT !.ml = @ + days]
    ELSE IF leave_type = "OTHER" THEN [balance EXCEPT !.other = @ + days]
    ELSE balance

\* a credit that never lifts a balance above its default allocation
credit_leave_capped(bal, employee_id, leave_type, days) ==
    LET bal1 == get_or_create_balance(bal, employee_id)
        row == add_days(bal1[employee_id], leave_type, days)
    IN  IF get_available_days(row, leave_type)
               > get_available_days(DefaultBalance, leave_type)
        THEN bal1
        ELSE [bal1 EXCEPT ![employee_id] = row]

\* credit_leave: the table after the call
credit_leave(bal, employee_id, leave_type, days) ==
    LET bal1 == get_or_create_balance(bal, employee_id)
    IN  [bal1 EXCEPT ![employee_id] = add_days(@, leave_type, days)]

\* timedelta(days=d).days: a timedelta is normalised to whole days, rounded down,
\* plus a non-negative rest; date + timedelta adds the whole days only
timedelta_days(d) == d \div Unit

\* inclusive_end without the day taken off: the end is the day after the last
inclusive_end_exclusive(start_date, days) == start_date + timedelta_days(days)

\* start + timedelta(days=days) - timedelta(days=1)
inclusive_end(start_date, days) == start_date + timedelta_days(days) - 1

\* overlaps with a strict comparison: ranges that only touch do not conflict
overlaps_strict(start_date, new_end, req) ==
    LET existing_start == req.start_date
        existing_end == inclusive_end(existing_start, req.days)
    IN  start_date < existing_end /\ new_end > existing_start

\* the test of the loop of apply_leave, for one existing request
overlaps(start_date, new_end, req) ==
    LET existing_start == req.start_date
        existing_end == inclusive_end(existing_start, req.days)
    IN  start_date <= existing_end /\ new_end >= existing_start

\* the rows the query of apply_leave returns
existing_requests(reqs, employee_id) ==
    {i \in DOMAIN reqs : reqs[i].employee_id = employee_id}

\* the balance check with the boundary excluded
insufficient_at_boundary(days, available) == days >= available

\* a balance check that lets every request pass
insufficient_never(days, available) == FALSE

\* if days > available: raise
insufficient(days, available) == days > available

\* the raise inside the loop of apply_leave
overlap_found(reqs, employee_id, days, start_date) ==
    \E i \in existing_requests(reqs, employee_id) :
        overlaps(start_date, inclusive_end(start_date, days), reqs[i])

\* a request row that takes the id of the first row and waits for approval
new_request_pending(reqs, employee_id, leave_type, days, start_date, created_at) ==
    [id |-> 1, employee_id |-> employee_id, leave_type |-> leave_type, days |-> days,
     start_date |-> start_date, status |-> "PENDING", created_at |-> created_at]

\* LeaveRequestORM(...) as the insert stores it; id is the autoincrement key
\* and created_at the server's clock
new_request(reqs, employee_id, leave_type, days, start_date, created_at) ==
    [id |-> Len(reqs) + 1, employee_id |-> employee_id, leave_type |-> leave_type,
     days |-> days, start_date |-> start_date, status |-> "APPROVED",
     created_at |-> created_at]

\* apply_leave run alone: its result and the tables it leaves
apply_leave(bal, reqs, employee_id, leave_type, days, start_date, created_at) ==
    LET bal1 == get_or_create_balance(bal, employee_id)
        available == get_available_days(bal1[employee_id], leave_type)
    IN  IF insufficient(days, available)
        THEN [code |-> "InsufficientBalance", balances |-> bal1, requests |-> reqs]
        ELSE IF overlap_found(reqs, employee_id, days, start_date)
        THEN [code |-> "OverlappingRequest", balances |-> bal1, requests |-> reqs]
        ELSE [code |-> "OK",
              balances |-> [bal1 EXCEPT ![employee_id] = deduct_days(@, leave_type, days)],
              requests |-> Append(reqs, new_request(reqs, employee_id, leave_type,
                                                    days, start_date, created_at))]

\* the rows of the employee in the order of insertion, oldest first
list_oldest_first(reqs, employee_id) ==
    {SelectSeq(reqs, LAMBDA r : r.employee_id = employee_id)}

\* list_employee_requests: the rows of the employee ORDER BY created_at DESC;
\* the database is free in the order of rows with equal created_at
list_employee_requests(reqs, employee_id) ==
    LET idx == {i \in DOMAIN reqs : reqs[i].employee_id = employee_id}
        n == Cardinality(idx)
        orders == {q \in [1 .. n -> idx] :
                      /\ \A j, k \in 1 .. n : j # k => q[j] # q[k]
                      /\ \A k \in 1 .. n - 1 :
                             reqs[q[k]].created_at >= reqs[q[k + 1]].created_at}
    IN  {[k \in 1 .. n |-> reqs[q[k]]] : q \in orders}

\* the server clock never runs backwards: func.now() of a new row is the
\* latest created_at so far, or later
Clock(reqs) ==
    IF reqs = <<>> THEN {1}
    ELSE {reqs[Len(reqs)].created_at, reqs[Len(reqs)].created_at + 1}

\* ------------------------------------------------------------------ initial state
EmptyTable == [x \in {} |-> x]

EmployeeRow(id, username, password, email, is_active) ==
    [id |-> id, username |-> username, password |-> password, email |-> email,
     is_active |-> is_active]

\* the row create_default_admin looks for; the application starts only on a
\* database that holds it
AdminRow == EmployeeRow("admin", "admin", "admin", "admin@company.com", TRUE)

\* a directory an existing database may hold: two active employees and a
\* deactivated one
Directory ==
    {AdminRow, EmployeeRow("e1", "alice", "pw1", "alice@company.com", TRUE),
     EmployeeRow("e2", "bob", "pw1", "bob@company.com", FALSE)}

\* what a call leaves behind for its caller: the operation, its result, and
\* the arguments it was called with
Outcome(op, code, args) == [op |-> op, code |-> code, args |-> args]

\* the same for a call whose returned rows the caller reads
Returned(op, code, args, value) ==
    [op |-> op, code |-> code, args |-> args, value |-> value]

Init ==
    /\ employees = Directory
    /\ balances = EmptyTable
    /\ requests = <<>>
    /\ TOKENS = EmptyTable
    /\ last = Outcome("none", "none", <<>>)
    /\ credited = [e \in LedgerIds \cup UnknownIds |-> [t \in LeaveTypeEnum |-> 0]]
    /\ overwritten = {}
    /\ nadjust = 0
    /\ pc = [w \in {} |-> "idle"]
    /\ call = [w \in {} |-> 0]
    /\ loaded = [w \in {} |-> 0]
    /\ ncalls = 0
    /\ startBal = EmptyTable
    /\ sessions = 0

\* ------------------------------------------------------------------ the ledger and the engine, one call at a time
\* LeaveRepository.initialize_employee_balance(e, c, p, m, o)
Initialize(e, c, p, m, o) ==
    /\ nadjust < MaxAdjust
    /\ nadjust' = nadjust + 1
    /\ balances' = initialize_employee_balance(balances, e, c, p, m, o)
    /\ overwritten' = overwritten \cup {e}
    /\ last' = Outcome("initialize_employee_balance", "OK", <<e, c, p, m, o>>)
    /\ UNCHANGED <<employees, requests, TOKENS, credited, threadVars, sessions>>

\* LeaveRepository.get_or_create_balance(e)
GetOrCreate(e) ==
    /\ balances' = get_or_create_balance(balances, e)
    /\ last' = Returned("get_or_create_balance", "OK", <<e>>, balances'[e])
    /\ UNCHANGED <<employees, requests, TOKENS, historyVars, threadVars, sessions>>

\* LeaveRepository.credit_leave(e, t, d)
Credit(e, t, d) ==
    /\ nadjust < MaxAdjust
    /\ nadjust' = nadjust + 1
    /\ balances' = credit_leave(balances, e, t, d)
    /\ credited' = [credited EXCEPT ![e][t] = @ + d]
    /\ last' = Outcome("credit_leave", "OK", <<e, t, d>>)
    /\ UNCHANGED <<employees, requests, TOKENS, overwritten, threadVars, sessions>>

\* LeaveRepository.apply_leave(e, t, d, sd, reason)
Apply(e, t, d, sd) ==
    \E now \in Clock(requests) :
        LET out == apply_leave(balances, requests, e, t, d, sd, now)
        IN  /\ out.code = "OK" => Len(requests) < MaxRequests
            /\ balances' = out.balances
            /\ requests' = out.requests
            /\ last' = Outcome("apply_leave", out.code, <<e, t, d, sd>>)
            /\ UNCHANGED <<employees, TOKENS, historyVars, threadVars, sessions>>

\* LeaveRepository.list_employee_requests(e)
ListRequests(e) ==
    /\ \E rows \in list_employee_requests(requests, e) :
           last' = Returned("list_employee_requests", "OK", <<e>>, rows)
    /\ UNCHANGED <<dbVars, TOKENS, historyVars, threadVars, sessions>>

Next ==
    \/ \E a \in InitializeIn : Initialize(a[1], a[2], a[3], a[4], a[5])
    \/ \E e \in LedgerIds : GetOrCreate(e)
    \/ \E a \in CreditIn : Credit(a[1], a[2], a[3])
    \/ \E a \in ApplyIn : Apply(a[1], a[2], a[3], a[4])
    \/ \E e \in LedgerIds : ListRequests(e)

Spec == Init /\ [][Next]_vars

\* ------------------------------------------------------------------ the repository called with any id
\* The methods of LeaveRepository take employee_id as a plain string; here
\* they are called for e1 and for an id the directory does not hold.
AnyIds == {"e1"} \cup UnknownIds

NextAnyId ==
    \/ \E e \in AnyIds : Initialize(e, Unit, Unit, Unit, Unit)
    \/ \E e \in AnyIds : GetOrCreate(e)
    \/ \E e \in AnyIds : Credit(e, "CL", Unit)
    \/ \E e \in AnyIds, sd \in Dates : Apply(e, "CL", Unit, sd)
    \/ \E e \in AnyIds : ListRequests(e)

SpecAnyId == Init /\ [][NextAnyId]_vars

\* ------------------------------------------------------------------ apply_leave on concurrent sessions
\* Each REST request runs on a thread of the server's pool with a session of
\* its own (deps.get_db; db.SessionLocal: autocommit=False, autoflush=False, no
\* isolation level, no row lock in any query).  A statement or a commit is one
\* step; what a session has loaded stays as loaded until its own commit.
Workers == {"w1", "w2"}

\* the calls the workers make
ConcApplyIn ==
    {<<"e1", "CL", Unit, 1>>, <<"e1", "CL", Unit, 2>>, <<"e1", "CL", 2 * Unit, 1>>,
     <<"e1", "OTHER", Unit, 3>>, <<"e2", "CL", Unit, 1>>}

NoCall == <<>>

NotLoaded == [loaded |-> FALSE]

InitConc ==
    /\ employees = Directory
    /\ balances = EmptyTable
    /\ requests = <<>>
    /\ TOKENS = EmptyTable
    /\ last = Outcome("none", "none", <<>>)
    /\ credited = [e \in LedgerIds |-> [t \in LeaveTypeEnum |-> 0]]
    /\ overwritten = {}
    /\ nadjust = 0
    /\ pc = [w \in Workers |-> "idle"]
    /\ call = [w \in Workers |-> NoCall]
    /\ loaded = [w \in Workers |-> NotLoaded]
    /\ ncalls = 0
    /\ startBal = EmptyTable
    /\ sessions = 0

\* the call of worker w ends with `code`
Return(w, code) ==
    /\ pc' = [pc EXCEPT ![w] = "idle"]
    /\ call' = [call EXCEPT ![w] = NoCall]
    /\ loaded' = [loaded EXCEPT ![w] = NotLoaded]
    /\ last' = Outcome("apply_leave", code, call[w])
    /\ sessions' = get_db_exit(sessions, exit_of(code))

\* the session continues at `at` holding `row`
Continue(w, at, row) ==
    /\ pc' = [pc EXCEPT ![w] = at]
    /\ loaded' = [loaded EXCEPT ![w] = row]
    /\ UNCHANGED <<call, last, sessions>>

\* apply_leave line 218-225, on the row the session holds: raise, or go on to
\* the query of the requests
CheckBalance(w, row) ==
    IF insufficient(call[w][3], get_available_days(row, call[w][2]))
    THEN Return(w, "InsufficientBalance")
    ELSE Continue(w, "scan", row)

\* a balance is set before any worker call begins
ConcInitialize(e, c, p, m, o) ==
    /\ ncalls = 0
    /\ nadjust < MaxAdjust
    /\ nadjust' = nadjust + 1
    /\ balances' = initialize_employee_balance(balances, e, c, p, m, o)
    /\ overwritten' = overwritten \cup {e}
    /\ last' = Outcome("initialize_employee_balance", "OK", <<e, c, p, m, o>>)
    /\ UNCHANGED <<employees, requests, TOKENS, credited, threadVars, sessions>>

\* a request arrives: apply_leave(e, t, d, sd) is entered
ConcBegin(w, a) ==
    /\ pc[w] = "idle"
    /\ ncalls < MaxCalls
    /\ ncalls' = ncalls + 1
    /\ startBal' = IF ncalls = 0 THEN balances ELSE startBal
    /\ pc' = [pc EXCEPT ![w] = "get"]
    /\ call' = [call EXCEPT ![w] = a]
    /\ UNCHANGED <<dbVars, TOKENS, last, historyVars, loaded>>
    /\ sessions' = get_db_enter(sessions)

\* get_or_create_balance: db.get(LeaveBalanceORM, employee_id)
ConcGet(w) ==
    /\ pc[w] = "get"
    /\ IF no_balance(balances, call[w][1])
       THEN Continue(w, "create", NotLoaded)
       ELSE CheckBalance(w, balances[call[w][1]])
    /\ UNCHANGED <<dbVars, TOKENS, historyVars, ncalls, startBal>>

\* get_or_create_balance: db.add(balance); db.commit().  The insert fails on
\* the primary key when another session has created the row meanwhile.
ConcCreate(w) ==
    /\ pc[w] = "create"
    /\ IF no_balance(balances, call[w][1])
       THEN /\ balances' = get_or_create_balance(balances, call[w][1])
            /\ Continue(w, "refresh", NotLoaded)
       ELSE /\ balances' = balances
            /\ Return(w, "IntegrityError")
    /\ UNCHANGED <<employees, requests, TOKENS, historyVars, ncalls, startBal>>

\* get_or_create_balance: db.refresh(balance)
ConcRefresh(w) ==
    /\ pc[w] = "refresh"
    /\ CheckBalance(w, balances[call[w][1]])
    /\ UNCHANGED <<dbVars, TOKENS, historyVars, ncalls, startBal>>

\* apply_leave line 237-254: the query of the employee's requests and the loop
ConcScan(w) ==
    /\ pc[w] = "scan"
    /\ IF overlap_found(requests, call[w][1], call[w][3], call[w][4])
       THEN Return(w, "OverlappingRequest")
       ELSE Continue(w, "commit", loaded[w])
    /\ UNCHANGED <<dbVars, TOKENS, historyVars, ncalls, startBal>>

\* the UPDATE the flush emits: the one column the session has changed, set to
\* the value the session computed from the row it had loaded
flush_balance(row, in_session, leave_type) ==
    IF leave_type = "CL" THEN [row EXCEPT !.cl = in_session.cl]
    ELSE IF leave_type = "PL" THEN [row EXCEPT !.pl = in_session.pl]
    ELSE IF leave_type = "ML" THEN [row EXCEPT !.ml = in_session.ml]
    ELSE [row EXCEPT !.other = in_session.other]

\* apply_leave line 257-269: _deduct_days on the loaded row, db.add(request),
\* db.commit(): the UPDATE and the INSERT are committed together
ConcCommit(w) ==
    /\ pc[w] = "commit"
    /\ \E now \in Clock(requests) :
           LET e == call[w][1]
               t == call[w][2]
               d == call[w][3]
           IN  /\ balances' = [balances EXCEPT
                                  ![e] = flush_balance(@, deduct_days(loaded[w], t, d), t)]
               /\ requests' = Append(requests,
                                     new_request(requests, e, t, d, call[w][4], now))
    /\ Return(w, "OK")
    /\ UNCHANGED <<employees, TOKENS, historyVars, ncalls, startBal>>

NextConc ==
    \/ \E a \in InitializeIn : ConcInitialize(a[1], a[2], a[3], a[4], a[5])
    \/ \E w \in Workers, a \in ConcApplyIn : ConcBegin(w, a)
    \/ \E w \in Workers : ConcGet(w)
    \/ \E w \in Workers : ConcCreate(w)
    \/ \E w \in Workers : ConcRefresh(w)
    \/ \E w \in Workers : ConcScan(w)
    \/ \E w \in Workers : ConcCommit(w)

SpecConc == InitConc /\ [][NextConc]_vars

\* ------------------------------------------------------------------ credit_leave beside apply_leave
\* One request thread serves apply-leave calls and the other credit-leave
\* calls, each on its own session: a credit and an apply overlap in time, two
\* applies or two credits do not.
ApplyWorker == "w1"

CreditWorker == "w2"

\* the credit_leave calls of the credit thread
ConcCreditIn == {<<"e1", "CL", Unit>>, <<"e1", "OTHER", Unit>>, <<"e2", "CL", Unit>>}

\* the credit call of worker w ends with `code`
ReturnCredit(w, code) ==
    /\ pc' = [pc EXCEPT ![w] = "idle"]
    /\ call' = [call EXCEPT ![w] = NoCall]
    /\ loaded' = [loaded EXCEPT ![w] = NotLoaded]
    /\ last' = Outcome("credit_leave", code, call[w])
    /\ sessions' = get_db_exit(sessions, exit_of(code))

\* a request arrives: credit_leave(e, t, d) is entered
ConcCreditBegin(w, a) ==
    /\ pc[w] = "idle"
    /\ ncalls < MaxCalls
    /\ ncalls' = ncalls + 1
    /\ startBal' = IF ncalls = 0 THEN balances ELSE startBal
    /\ pc' = [pc EXCEPT ![w] = "credit_get"]
    /\ call' = [call EXCEPT ![w] = a]
    /\ sessions' = get_db_enter(sessions)
    /\ UNCHANGED <<dbVars, TOKENS, last, historyVars, loaded>>

\* get_or_create_balance: db.get(LeaveBalanceORM, employee_id)
ConcCreditGet(w) ==
    /\ pc[w] = "credit_get"
    /\ IF no_balance(balances, call[w][1])
       THEN Continue(w, "credit_create", NotLoaded)
       ELSE Continue(w, "credit_commit", balances[call[w][1]])
    /\ UNCHANGED <<dbVars, TOKENS, historyVars, ncalls, startBal>>

\* get_or_create_balance: db.add(balance); db.commit()
ConcCreditCreate(w) ==
    /\ pc[w] = "credit_create"
    /\ IF no_balance(balances, call[w][1])
       THEN /\ balances' = get_or_create_balance(balances, call[w][1])
            /\ Continue(w, "credit_refresh", NotLoaded)
       ELSE /\ balances' = balances
            /\ ReturnCredit(w, "IntegrityError")
    /\ UNCHANGED <<employees, requests, TOKENS, historyVars, ncalls, startBal>>

\* get_or_create_balance: db.refresh(balance)
ConcCreditRefresh(w) ==
    /\ pc[w] = "credit_refresh"
    /\ Continue(w, "credit_commit", balances[call[w][1]])
    /\ UNCHANGED <<dbVars, TOKENS, historyVars, ncalls, startBal>>

\* credit_leave line 172-181: balance.<field> += days on the loaded row, and
\* db.commit(): the UPDATE sets the column to the sum the session computed
ConcCreditCommit(w) ==
    /\ pc[w] = "credit_commit"
    /\ LET e == call[w][1]
           t == call[w][2]
           d == call[w][3]
       IN  /\ balances' = [balances EXCEPT
                              ![e] = flush_balance(@, add_days(loaded[w], t, d), t)]
           /\ credited' = [credited EXCEPT ![e][t] = @ + d]
    /\ ReturnCredit(w, "OK")
    /\ UNCHANGED <<employees, requests, TOKENS, overwritten, nadjust, ncalls, startBal>>

NextCredit ==
    \/ \E a \in InitializeIn : ConcInitialize(a[1], a[2], a[3], a[4], a[5])
    \/ \E a \in ConcApplyIn : ConcBegin(ApplyWorker, a)
    \/ ConcGet(ApplyWorker)
    \/ ConcCreate(ApplyWorker)
    \/ ConcRefresh(ApplyWorker)
    \/ ConcScan(ApplyWorker)
    \/ ConcCommit(ApplyWorker)
    \/ \E a \in ConcCreditIn : ConcCreditBegin(CreditWorker, a)
    \/ ConcCreditGet(CreditWorker)
    \/ ConcCreditCreate(CreditWorker)
    \/ ConcCreditRefresh(CreditWorker)
    \/ ConcCreditCommit(CreditWorker)

SpecCredit == InitConc /\ [][NextCredit]_vars

\* ------------------------------------------------------------------ repository.py: EmployeeRepository
\* the keyword arguments create_employee passes to EmployeeORM(...)
CreateKwargs == {"id", "username", "password", "name", "email", "department", "is_admin"}

\* the declarative constructor raises TypeError for a keyword argument that
\* is no attribute of the mapped class
constructor_accepts(columns, kwargs) == kwargs \subseteq columns

\* self.db.get(EmployeeORM, data.id)
id_exists(emps, id) == \E r \in emps : r.id = id

\* the username test with the id column compared
username_exists_by_id(emps, username) == \E r \in emps : r.id = username

\* the query filtered on EmployeeORM.username == data.username
username_exists(emps, username) == \E r \in emps : r.username = username

\* db.commit() of the new employee row and its balance row: the primary keys
\* and the unique columns of models.py decide
commit_refused(emps, bal, data) ==
    \/ \E r \in emps : r.id = data.id \/ r.username = data.username \/ r.email = data.email
    \/ data.id \in DOMAIN bal

\* create_employee: the exception it raises ("none": it returns) and the tables
\* it leaves
create_employee(emps, bal, data) ==
    IF id_exists(emps, data.id)
    THEN [raised |-> "ValueError", employees |-> emps, balances |-> bal]
    ELSE IF username_exists(emps, data.username)
    THEN [raised |-> "ValueError", employees |-> emps, balances |-> bal]
    ELSE IF ~constructor_accepts(EmployeeColumns, CreateKwargs)
    THEN [raised |-> "TypeError", employees |-> emps, balances |-> bal]
    ELSE IF commit_refused(emps, bal, data)
    THEN [raised |-> "IntegrityError", employees |-> emps, balances |-> bal]
    ELSE [raised |-> "none",
          employees |-> emps \cup {EmployeeRow(data.id, data.username, data.password,
                                               data.email, TRUE)},
          balances |-> (data.id :> DefaultBalance) @@ bal]

\* a reset that writes the new password to every row
reset_password_everyone(emps, employee_id, new_password) ==
    {[r EXCEPT !.password = new_password] : r \in emps}

\* reset_password: the row of the employee with the new password
reset_password(emps, employee_id, new_password) ==
    {IF r.id = employee_id THEN [r EXCEPT !.password = new_password] ELSE r : r \in emps}

\* ------------------------------------------------------------------ converters.py
\* a conversion that reads the casual and the privilege balance from each
\* other's column
build_balance_dto_swapped(balance) ==
    [key \in {"CL", "PL", "ML", "OTHER"} |->
        IF key = "CL" THEN balance.pl
        ELSE IF key = "PL" THEN balance.cl
        ELSE IF key = "ML" THEN balance.ml
        ELSE balance.other]

\* build_balance_dto(balance).balances: the dict with the keys CL, PL, ML, OTHER
build_balance_dto(balance) ==
    [key \in {"CL", "PL", "ML", "OTHER"} |->
        IF key = "CL" THEN balance.cl
        ELSE IF key = "PL" THEN balance.pl
        ELSE IF key = "ML" THEN balance.ml
        ELSE balance.other]

\* build_request_dto(req), without the reason
build_request_dto(req) ==
    [id |-> req.id, employee_id |-> req.employee_id, leave_type |-> req.leave_type,
     days |-> req.days, start_date |-> req.start_date, status |-> req.status,
     created_at |-> req.created_at]

\* what apply_leave_rest and the tool apply_leave return after the commit:
\* the request, and the balance row read again
apply_response(bal, reqs, employee_id) ==
    [request |-> build_request_dto(reqs[Len(reqs)]),
     balances |-> build_balance_dto(get_or_create_balance(bal, employee_id)[employee_id])]

\* what credit_leave_rest returns: the adjustment record, a dict built for the
\* response, and the balance as credit_leave has refreshed it
credit_response(bal, employee_id, body) ==
    [adjustment |-> [employee_id |-> employee_id, leave_type |-> body[1],
                     days |-> body[2], type |-> "CREDIT"],
     balances |-> build_balance_dto(bal[employee_id])]

\* ------------------------------------------------------------------ security.py
verify_password(plain_password, stored_password) == plain_password = stored_password

\* get_current_employee: the id of the active employee the Basic credentials
\* belong to, or "anonymous" (401)
get_current_employee(emps, username, password) ==
    LET found == {r \in emps : r.username = username /\ r.is_active}
    IN  IF \E r \in found : verify_password(password, r.password)
        THEN (CHOOSE r \in found : verify_password(password, r.password)).id
        ELSE "anonymous"

\* HTTPException(status_code, detail) as the client sees it
HTTPException(status_code, detail) == [status |-> status_code, detail |-> detail]

NoError == HTTPException("none", "none")

\* a check that answers an unknown username apart from a wrong password
authentication_error_telling(emps, username, password) ==
    LET found == {r \in emps : r.username = username /\ r.is_active}
    IN  IF found = {} THEN HTTPException("401", "Unknown user")
        ELSE IF ~(\E r \in found : verify_password(password, r.password))
        THEN HTTPException("401", "Invalid authentication credentials")
        ELSE NoError

\* get_current_employee line 32-37: the exception the credentials are
\* answered with, or NoError
authentication_error(emps, username, password) ==
    LET found == {r \in emps : r.username = username /\ r.is_active}
    IN  IF found = {} \/ ~(\E r \in found : verify_password(password, r.password))
        THEN HTTPException("401", "Invalid authentication credentials")
        ELSE NoError

\* ------------------------------------------------------------------ api.py
\* Basic credentials a client presents: valid ones, a wrong password, those of
\* a deactivated employee, an unknown user, and a password set by a reset
CredentialsIn ==
    {<<"alice", "pw1">>, <<"admin", "admin">>, <<"alice", "wrong">>, <<"bob", "pw1">>,
     <<"nobody", "pw1">>, <<"alice", "pw2">>}

\* the employee_id of the path
PathIds == {"e1", "admin"}

\* ApplyLeaveBody (leave_type, days, start_date): pydantic checks the types
\* only, so days is any float
ApplyBodyIn ==
    {<<"CL", Unit, 1>>, <<"CL", 2 * Unit, 2>>, <<"CL", 0 - Unit, 2>>, <<"OTHER", 0, 1>>,
     <<"OTHER", Unit, 2>>}

\* CreditLeaveBody (leave_type, days): days is any float
CreditBodyIn == {<<"CL", Unit>>, <<"OTHER", 0 - Unit>>, <<"OTHER", 0>>}

\* EmployeeCreate bodies: a taken and a free id, username and e-mail
CreateBodyIn ==
    [id : {"e1", "e3"}, username : {"alice", "carol"}, password : {"pw1"},
     email : {"alice@company.com", "carol@company.com"}]

\* an unhandled exception leaves the handler: the server answers 500
ServerError == "500"

\* POST /employees
RestCreateEmployee(body) ==
    LET out == create_employee(employees, balances, body)
    IN  /\ employees' = out.employees
        /\ balances' = out.balances
        /\ last' = Outcome("create_employee",
                           IF out.raised = "none" THEN "OK"
                           ELSE IF out.raised = "ValueError" THEN "VALIDATION_ERROR"
                           ELSE ServerError,
                           <<body.id, body.username, body.email>>)
        /\ UNCHANGED <<requests, TOKENS, historyVars, threadVars>>
        /\ sessions' = get_db(sessions, exit_of(last'.code))

\* the detail of the 403 each endpoint raises for the path of another employee
ForbiddenDetail(op) ==
    CASE op = "reset_password" -> "You can only reset your own password"
      [] op = "initialize_employee_rest" -> "You can only manage your own leaves"
      [] op = "get_leave_balance_rest" -> "You can only view your own leave balance"
      [] op = "apply_leave_rest" -> "You can only apply leave for yourself"
      [] op = "credit_leave_rest" -> "You can only credit leave to your own account"
      [] op = "list_employee_leave_requests_rest" -> "You can only view your own leave requests"

\* what a call answered with an HTTPException leaves behind: the exception,
\* and the credentials the call was made with
Denied(op, exc, args, cred) ==
    [op |-> op, code |-> exc.status, args |-> args, detail |-> exc.detail,
     credentials |-> cred]

\* the dependencies and the first lines of every leave endpoint: 401 without a
\* current employee, 403 when the path names another employee
Refused(op, cred, employee_id) ==
    LET caller == get_current_employee(employees, cred[1], cred[2])
    IN  /\ caller = "anonymous" \/ caller # employee_id
        /\ last' = Denied(op,
                          IF caller = "anonymous"
                          THEN authentication_error(employees, cred[1], cred[2])
                          ELSE HTTPException("403", ForbiddenDetail(op)),
                          <<caller, employee_id>>, cred)
        /\ UNCHANGED <<dbVars, TOKENS, historyVars, threadVars>>
        /\ sessions' = get_db(sessions, exit_of(last'.code))

\* POST /employees/{employee_id}/apply-leave
RestApplyLeave(cred, employee_id, body) ==
    LET caller == get_current_employee(employees, cred[1], cred[2])
    IN  \/ Refused("apply_leave_rest", cred, employee_id)
        \/ /\ caller = employee_id
           /\ \E now \in Clock(requests) :
                  LET out == apply_leave(balances, requests, employee_id,
                                         body[1], body[2], body[3], now)
                  IN  /\ out.code = "OK" => Len(requests) < MaxRequests
                      /\ balances' = out.balances
                      /\ requests' = out.requests
                      /\ last' = IF out.code = "OK"
                                 THEN Returned("apply_leave_rest", "OK",
                                               <<caller, employee_id>> \o body,
                                               apply_response(out.balances, out.requests,
                                                              employee_id))
                                 ELSE Outcome("apply_leave_rest", "BUSINESS_RULE_VIOLATION",
                                              <<caller, employee_id>> \o body)
           /\ UNCHANGED <<employees, TOKENS, historyVars, threadVars>>
           /\ sessions' = get_db(sessions, exit_of(last'.code))

\* POST /employees/{employee_id}/credit-leave
RestCreditLeave(cred, employee_id, body) ==
    LET caller == get_current_employee(employees, cred[1], cred[2])
    IN  \/ Refused("credit_leave_rest", cred, employee_id)
        \/ /\ caller = employee_id
           /\ nadjust < MaxAdjust
           /\ nadjust' = nadjust + 1
           /\ balances' = credit_leave(balances, employee_id, body[1], body[2])
           /\ last' = Returned("credit_leave_rest", "OK", <<caller, employee_id>> \o body,
                               credit_response(balances', employee_id, body))
           /\ UNCHANGED <<employees, requests, TOKENS, credited, overwritten, threadVars>>
           /\ sessions' = get_db(sessions, exit_of(last'.code))

\* PasswordResetBody.new_password
PasswordsIn == {"pw2"}

\* the unannotated parameter `body` of initialize_employee_rest is a query
\* parameter: the request carries it as a string, or leaves it out
InitializeQueryIn == {"absent", "text"}

\* POST /employees/{employee_id}/reset-password
RestResetPassword(cred, employee_id, new_password) ==
    LET caller == get_current_employee(employees, cred[1], cred[2])
    IN  \/ Refused("reset_password", cred, employee_id)
        \/ /\ caller = employee_id
           /\ employees' = reset_password(employees, caller, new_password)
           /\ last' = Outcome("reset_password", "OK", <<caller, employee_id, new_password>>)
           /\ UNCHANGED <<balances, requests, TOKENS, historyVars, threadVars>>
           /\ sessions' = get_db(sessions, exit_of(last'.code))

\* POST /employees/{employee_id}/initialize: a missing query parameter is
\* answered 422 once the dependencies have passed; a string has no dict(), so
\* the handler leaves with AttributeError before it reaches the repository
RestInitialize(cred, employee_id, body) ==
    LET caller == get_current_employee(employees, cred[1], cred[2])
    IN  \/ /\ body = "absent" => caller = "anonymous"
           /\ Refused("initialize_employee_rest", cred, employee_id)
        \/ /\ caller # "anonymous"
           /\ body = "absent" \/ caller = employee_id
           /\ last' = Outcome("initialize_employee_rest",
                              IF body = "absent" THEN "422" ELSE ServerError,
                              <<caller, employee_id, body>>)
           /\ UNCHANGED <<dbVars, TOKENS, historyVars, threadVars>>
           /\ sessions' = get_db(sessions, exit_of(last'.code))

\* GET /employees/{employee_id}/leave-balance
RestGetLeaveBalance(cred, employee_id) ==
    LET caller == get_current_employee(employees, cred[1], cred[2])
    IN  \/ Refused("get_leave_balance_rest", cred, employee_id)
        \/ /\ caller = employee_id
           /\ balances' = get_or_create_balance(balances, employee_id)
           /\ last' = Returned("get_leave_balance_rest", "OK", <<caller, employee_id>>,
                               balances'[employee_id])
           /\ UNCHANGED <<employees, requests, TOKENS, historyVars, threadVars>>
           /\ sessions' = get_db(sessions, exit_of(last'.code))

\* GET /employees/{employee_id}/leave-requests
RestListRequests(cred, employee_id) ==
    LET caller == get_current_employee(employees, cred[1], cred[2])
    IN  \/ Refused("list_employee_leave_requests_rest", cred, employee_id)
        \/ /\ caller = employee_id
           /\ \E rows \in list_employee_requests(requests, employee_id) :
                  last' = Returned("list_employee_leave_requests_rest", "OK",
                                   <<caller, employee_id>>, rows)
           /\ UNCHANGED <<dbVars, TOKENS, historyVars, threadVars>>
           /\ sessions' = get_db(sessions, exit_of(last'.code))

\* who calls for whom: every credential against the path of e1, and the path
\* of admin called by e1 and by admin
CallersIn ==
    (CredentialsIn \X {"e1"})
        \cup {<<<<"alice", "pw1">>, "admin">>, <<<<"admin", "admin">>, "admin">>}

\* the caller who sends every body; the others send one
FullCaller == <<<<"alice", "pw1">>, "e1">>

ApplyCallsIn ==
    ({FullCaller} \X ApplyBodyIn) \cup ((CallersIn \ {FullCaller}) \X {<<"CL", Unit, 1>>})

CreditCallsIn ==
    ({FullCaller} \X CreditBodyIn) \cup ((CallersIn \ {FullCaller}) \X {<<"CL", Unit>>})

NextApi ==
    \/ \E body \in CreateBodyIn : RestCreateEmployee(body)
    \/ \E c \in ApplyCallsIn : RestApplyLeave(c[1][1], c[1][2], c[2])
    \/ \E c \in CreditCallsIn : RestCreditLeave(c[1][1], c[1][2], c[2])
    \/ \E c \in CallersIn, pw \in PasswordsIn : RestResetPassword(c[1], c[2], pw)
    \/ \E c \in CallersIn, body \in InitializeQueryIn : RestInitialize(c[1], c[2], body)
    \/ \E c \in CallersIn : RestGetLeaveBalance(c[1], c[2])
    \/ \E c \in CallersIn : RestListRequests(c[1], c[2])

SpecApi == Init /\ [][NextApi]_vars

\* ------------------------------------------------------------------ mcp_server.py
\* uuid4().hex values a login may draw, which are also the tokens a client
\* presents
TokensIn == {"t1", "t2"}

\* username and password a client logs in with
LoginIn ==
    {<<"alice", "pw1">>, <<"admin", "admin">>, <<"alice", "wrong">>, <<"bob", "pw1">>,
     <<"nobody", "pw1">>}

\* reading emp.<attribute> raises AttributeError unless the class maps it
has_attribute(columns, attribute) == attribute \in columns

\* authenticate_token: the employee id the token stands for, or the
\* ValueError raised
authenticate_token(tokens, emps, token) ==
    IF token \notin DOMAIN tokens THEN "Invalid or expired token"
    ELSE IF ~id_exists(emps, tokens[token]) THEN "Employee not found"
    ELSE tokens[token]

AuthErrors == {"Invalid or expired token", "Employee not found"}

\* responses.error(code, message): the fields of the ApiResponse a tool returns
error(code, message) == [error_code |-> code, error_message |-> message]

\* what a tool that returned error(...) leaves behind
Failure(op, response, args) ==
    [op |-> op, code |-> response.error_code, args |-> args,
     message |-> response.error_message]

\* tool login(username, password): the token is stored before the response,
\* which reads emp.is_admin, is built
McpLogin(username, password, token) ==
    LET found == {r \in employees : r.username = username /\ r.password = password}
    IN  /\ IF found = {}
           THEN /\ TOKENS' = TOKENS
                /\ last' = Failure("login",
                                   error("AUTH_FAILED", "Invalid username or password"),
                                   <<username, password>>)
           ELSE /\ token \notin DOMAIN TOKENS
                /\ TOKENS' = (token :> (CHOOSE r \in found : TRUE).id) @@ TOKENS
                /\ last' = Outcome("login",
                                   IF has_attribute(EmployeeColumns, "is_admin")
                                   THEN "OK" ELSE ServerError,
                                   <<username, password, token>>)
        /\ UNCHANGED <<dbVars, historyVars, threadVars>>
        /\ sessions' = db_session_ctx(sessions, exit_of(last'.code))

\* the employee a token-taking tool acts for: the id authenticate_token
\* returns, or "anonymous" when it raises ValueError
token_caller(tokens, emps, token) ==
    IF authenticate_token(tokens, emps, token) \in AuthErrors THEN "anonymous"
    ELSE authenticate_token(tokens, emps, token)

\* emp.is_admin of the employee row, where the class maps it
is_admin(emps, employee_id) == (CHOOSE r \in emps : r.id = employee_id).is_admin

\* the lines every token-taking tool begins with: AUTH_FAILED when
\* authenticate_token raises
AuthFailed(op, token) ==
    /\ token_caller(TOKENS, employees, token) = "anonymous"
    /\ last' = Outcome(op, "AUTH_FAILED", <<"anonymous", token>>)
    /\ UNCHANGED <<dbVars, TOKENS, historyVars, threadVars>>
    /\ sessions' = db_session_ctx(sessions, exit_of(last'.code))

\* tool logout(token)
McpLogout(token) ==
    /\ IF token \in DOMAIN TOKENS
       THEN /\ TOKENS' = [t \in DOMAIN TOKENS \ {token} |-> TOKENS[t]]
            /\ last' = Outcome("logout", "OK", <<TOKENS[token], token>>)
       ELSE /\ TOKENS' = TOKENS
            /\ last' = Outcome("logout", "AUTH_FAILED", <<"anonymous", token>>)
    /\ UNCHANGED <<dbVars, historyVars, threadVars, sessions>>

\* tool who_am_i(token)
McpWhoAmI(token) ==
    LET emp == token_caller(TOKENS, employees, token)
    IN  \/ AuthFailed("who_am_i", token)
        \/ /\ emp # "anonymous"
           /\ last' = Returned("who_am_i", "OK", <<emp, token>>, emp)
           /\ UNCHANGED <<dbVars, TOKENS, historyVars, threadVars>>
           /\ sessions' = db_session_ctx(sessions, exit_of(last'.code))

\* tool admin_list_employees(token): reading emp.is_admin raises
\* AttributeError where the class does not map it
McpAdminListEmployees(token) ==
    LET emp == token_caller(TOKENS, employees, token)
    IN  \/ AuthFailed("admin_list_employees", token)
        \/ /\ emp # "anonymous"
           /\ last' = IF ~has_attribute(EmployeeColumns, "is_admin")
                      THEN Outcome("admin_list_employees", ServerError, <<emp, token>>)
                      ELSE IF ~is_admin(employees, emp)
                      THEN Outcome("admin_list_employees", "FORBIDDEN", <<emp, token>>)
                      ELSE Returned("admin_list_employees", "OK", <<emp, token>>,
                                    {r \in employees : r.is_active})
           /\ UNCHANGED <<dbVars, TOKENS, historyVars, threadVars>>
           /\ sessions' = db_session_ctx(sessions, exit_of(last'.code))

\* tool admin_create_employee(token, id, username, password, name, email,
\* department)
McpAdminCreateEmployee(token, body) ==
    LET emp == token_caller(TOKENS, employees, token)
        out == create_employee(employees, balances, body)
        args == <<emp, token, body.id, body.username, body.email>>
    IN  \/ AuthFailed("admin_create_employee", token)
        \/ /\ emp # "anonymous"
           /\ IF ~has_attribute(EmployeeColumns, "is_admin")
              THEN /\ last' = Outcome("admin_create_employee", ServerError, args)
                   /\ UNCHANGED <<employees, balances>>
              ELSE IF ~is_admin(employees, emp)
              THEN /\ last' = Outcome("admin_create_employee", "FORBIDDEN", args)
                   /\ UNCHANGED <<employees, balances>>
              ELSE /\ employees' = out.employees
                   /\ balances' = out.balances
                   /\ last' = Outcome("admin_create_employee",
                                      IF out.raised = "none" THEN "OK"
                                      ELSE IF out.raised = "ValueError"
                                      THEN "VALIDATION_ERROR"
                                      ELSE ServerError,
                                      args)
           /\ UNCHANGED <<requests, TOKENS, historyVars, threadVars>>
           /\ sessions' = db_session_ctx(sessions, exit_of(last'.code))

\* tool get_leave_balance(token)
McpGetLeaveBalance(token) ==
    LET emp == token_caller(TOKENS, employees, token)
    IN  \/ AuthFailed("get_leave_balance", token)
        \/ /\ emp # "anonymous"
           /\ balances' = get_or_create_balance(balances, emp)
           /\ last' = Returned("get_leave_balance", "OK", <<emp, token>>, balances'[emp])
           /\ UNCHANGED <<employees, requests, TOKENS, historyVars, threadVars>>
           /\ sessions' = db_session_ctx(sessions, exit_of(last'.code))

\* tool list_my_leave_requests(token)
McpListMyLeaveRequests(token) ==
    LET emp == token_caller(TOKENS, employees, token)
    IN  \/ AuthFailed("list_my_leave_requests", token)
        \/ /\ emp # "anonymous"
           /\ \E rows \in list_employee_requests(requests, emp) :
                  last' = Returned("list_my_leave_requests", "OK", <<emp, token>>, rows)
           /\ UNCHANGED <<dbVars, TOKENS, historyVars, threadVars>>
           /\ sessions' = db_session_ctx(sessions, exit_of(last'.code))

\* tool apply_leave(token, leave_type, days, start_date, reason): days is
\* checked before the token
McpApplyLeave(token, body) ==
    LET emp == token_caller(TOKENS, employees, token)
    IN  /\ IF body[2] <= 0
           THEN /\ last' = Outcome("apply_leave_tool", "VALIDATION_ERROR",
                                   <<"anonymous", token>> \o body)
                /\ UNCHANGED <<balances, requests>>
           ELSE IF emp = "anonymous"
           THEN /\ last' = Outcome("apply_leave_tool", "AUTH_FAILED",
                                   <<"anonymous", token>>)
                /\ UNCHANGED <<balances, requests>>
           ELSE \E now \in Clock(requests) :
                    LET out == apply_leave(balances, requests, emp,
                                           body[1], body[2], body[3], now)
                    IN  /\ out.code = "OK" => Len(requests) < MaxRequests
                        /\ balances' = out.balances
                        /\ requests' = out.requests
                        /\ last' = IF out.code = "OK"
                                   THEN Returned("apply_leave_tool", "OK",
                                                 <<emp, token>> \o body,
                                                 apply_response(out.balances, out.requests,
                                                                emp))
                                   ELSE Outcome("apply_leave_tool",
                                                "BUSINESS_RULE_VIOLATION",
                                                <<emp, token>> \o body)
        /\ UNCHANGED <<employees, TOKENS, historyVars, threadVars>>
        /\ sessions' = IF last'.code = "VALIDATION_ERROR" THEN sessions
                        ELSE db_session_ctx(sessions, exit_of(last'.code))

\* the token whose holder sends every body; the other sends a day of casual
\* leave, no day at all, and a day of privilege leave
ToolApplyIn ==
    ({"t1"} \X ApplyBodyIn)
        \cup ({"t2"} \X {<<"CL", Unit, 1>>, <<"OTHER", 0, 1>>, <<"PL", Unit, 2>>})

\* bodies of admin_create_employee: a new employee and a taken username
ToolCreateIn ==
    {b \in CreateBodyIn : b.id = "e3" /\ b.email = "carol@company.com"}

NextMcp ==
    \/ \E c \in LoginIn, token \in TokensIn : McpLogin(c[1], c[2], token)
    \/ \E token \in TokensIn : McpLogout(token)
    \/ \E token \in TokensIn : McpWhoAmI(token)
    \/ \E token \in TokensIn : McpAdminListEmployees(token)
    \/ \E token \in TokensIn, body \in ToolCreateIn : McpAdminCreateEmployee(token, body)
    \/ \E token \in TokensIn : McpGetLeaveBalance(token)
    \/ \E token \in TokensIn : McpListMyLeaveRequests(token)
    \/ \E a \in ToolApplyIn : McpApplyLeave(a[1], a[2])

SpecMcp == Init /\ [][NextMcp]_vars

\* ------------------------------------------------------------------ the REST API and the MCP tools on one database
\* Both interfaces work on the same tables.  The calls are those of NextApi and
\* NextMcp, each with fewer inputs: e1 for herself and for admin, the
\* deactivated e2 for himself, e1 with a reset password
AppCallersIn ==
    {<<<<"alice", "pw1">>, "e1">>, <<<<"alice", "pw1">>, "admin">>,
     <<<<"bob", "pw1">>, "e2">>, <<<<"alice", "pw2">>, "e1">>}

AppApplyIn == {<<"CL", Unit, 1>>, <<"CL", 2 * Unit, 2>>}

AppCreditIn == {<<"CL", Unit>>}

AppLoginIn == {<<"alice", "pw1">>, <<"bob", "pw1">>, <<"nobody", "pw1">>}

AppCreateIn ==
    {b \in CreateBodyIn : b.id = "e3" /\ b.username = "carol" /\ b.email = "carol@company.com"}

NextApp ==
    \/ \E body \in AppCreateIn : RestCreateEmployee(body)
    \/ \E c \in AppCallersIn, body \in AppApplyIn : RestApplyLeave(c[1], c[2], body)
    \/ \E c \in AppCallersIn, body \in AppCreditIn : RestCreditLeave(c[1], c[2], body)
    \/ \E c \in AppCallersIn, pw \in PasswordsIn : RestResetPassword(c[1], c[2], pw)
    \/ \E c \in AppCallersIn : RestInitialize(c[1], c[2], "text")
    \/ \E c \in AppCallersIn : RestGetLeaveBalance(c[1], c[2])
    \/ \E c \in AppCallersIn : RestListRequests(c[1], c[2])
    \/ \E c \in AppLoginIn, token \in TokensIn : McpLogin(c[1], c[2], token)
    \/ \E token \in TokensIn : McpLogout(token)
    \/ \E token \in TokensIn : McpWhoAmI(token)
    \/ \E token \in TokensIn : McpAdminListEmployees(token)
    \/ \E token \in TokensIn, body \in AppCreateIn : McpAdminCreateEmployee(token, body)
    \/ \E token \in TokensIn : McpGetLeaveBalance(token)
    \/ \E token \in TokensIn : McpListMyLeaveRequests(token)
    \/ \E token \in TokensIn, body \in AppApplyIn : McpApplyLeave(token, body)

SpecApp == Init /\ [][NextApp]_vars

\* ------------------------------------------------------------------ what the claims speak of
\* the balance of one leave type in a row
FieldOf(row, t) ==
    CASE t = "CL" -> row.cl
      [] t = "PL" -> row.pl
      [] t = "ML" -> row.ml
      [] t = "OTHER" -> row.other

\* the balance an employee has of a leave type: the row's, or the default
\* allocation a first access will create
AvailableOf(bal, e, t) ==
    IF e \in DOMAIN bal THEN FieldOf(bal[e], t) ELSE FieldOf(DefaultBalance, t)

RECURSIVE ApprovedUpTo(_, _, _, _)
\* the days of the approved requests of e of type t among the first n rows
ApprovedUpTo(reqs, e, t, n) ==
    IF n = 0 THEN 0
    ELSE ApprovedUpTo(reqs, e, t, n - 1)
         + (IF reqs[n].employee_id = e /\ reqs[n].leave_type = t /\ reqs[n].status = "APPROVED"
            THEN reqs[n].days ELSE 0)

ApprovedDays(reqs, e, t) == ApprovedUpTo(reqs, e, t, Len(reqs))

\* the inclusive interval [start, start + days - 1] of a request, in exact
\* arithmetic: both ends multiplied by Unit
ExactStart(start_date) == start_date * Unit

ExactEnd(start_date, days) == start_date * Unit + days - Unit

\* candidate.start <= existing.end and candidate.end >= existing.start
ExactOverlap(sd, d, r) ==
    /\ ExactStart(sd) <= ExactEnd(r.start_date, r.days)
    /\ ExactEnd(sd, d) >= ExactStart(r.start_date)

\* some request of e, of any status and leave type, overlaps the candidate
SomeOverlap(reqs, e, sd, d) ==
    \E i \in DOMAIN reqs : reqs[i].employee_id = e /\ ExactOverlap(sd, d, reqs[i])

WholeDays(d) == d > 0 /\ d % Unit = 0

Failed(code) == code \in {"InsufficientBalance", "OverlappingRequest"}

\* the last call was apply_leave(e, t, d, sd)
Applied == last.op = "apply_leave"

ArgE == last.args[1]

ArgT == last.args[2]

ArgD == last.args[3]

ArgS == last.args[4]

\* ------------------------------------------------------------------ C1
\* the balance of a leave type when the first of the concurrent calls began
StartOf(e, t) == AvailableOf(startBal, e, t)

\* no call is in progress
Quiescent == \A w \in DOMAIN pc : pc[w] = "idle"

\* C1: whatever the interleaving of concurrent apply_leave calls for one
\* employee and leave type, the days of the approved requests never exceed
\* the balance available before the calls, and once the calls have returned
\* the balance is the initial balance minus the days approved.
C1_NoDoubleSpend ==
    \A e \in LedgerIds, t \in TypesIn :
        /\ ApprovedDays(requests, e, t) <= StartOf(e, t)
        /\ (Quiescent /\ ncalls > 0)
               => AvailableOf(balances, e, t) = StartOf(e, t) - ApprovedDays(requests, e, t)

\* ------------------------------------------------------------------ C2
\* C2: whatever the interleaving of concurrent apply_leave calls for one
\* employee, no two persisted requests of that employee have overlapping
\* inclusive date intervals.
C2_NoOverlapUnderConcurrency ==
    \A i \in DOMAIN requests, j \in DOMAIN requests :
        (i < j /\ requests[i].employee_id = requests[j].employee_id)
            => ~ExactOverlap(requests[j].start_date, requests[j].days, requests[i])

\* ------------------------------------------------------------------ C3
\* C3: a failed apply_leave (insufficient balance or overlap) leaves the
\* balance rows and the request rows as they were before the call, also when
\* the employee had no balance row before it.
C3_FailedApplyCommitsNothing ==
    [][(Applied' /\ Failed(last'.code))
           => (balances' = balances /\ requests' = requests)]_vars

\* ------------------------------------------------------------------ C4
\* C4: for an employee whose balance only credit_leave and apply_leave have
\* touched since its lazy creation, the balance of every leave type is the
\* default allocation plus the days credited minus the days of the approved
\* requests.
C4_Conservation ==
    \A e \in DOMAIN balances, t \in LeaveTypeEnum :
        e \notin overwritten
            => FieldOf(balances[e], t)
                   = FieldOf(DefaultBalance, t) + credited[e][t] - ApprovedDays(requests, e, t)

\* a balance that has been credited and debited
C4_Witness ==
    \E e \in DOMAIN balances, t \in LeaveTypeEnum :
        /\ e \notin overwritten
        /\ credited[e][t] # 0
        /\ ApprovedDays(requests, e, t) > 0

\* ------------------------------------------------------------------ C5
\* no two persisted requests of one employee overlap
C5_NoOverlap ==
    \A i, j \in DOMAIN requests :
        (i # j /\ requests[i].employee_id = requests[j].employee_id)
            => ~ExactOverlap(requests[i].start_date, requests[i].days, requests[j])

\* an overlapping candidate is rejected, and with enough balance a candidate
\* is rejected exactly when it overlaps
C5_RejectedIffOverlap ==
    Applied' =>
        LET overlap == SomeOverlap(requests, ArgE', ArgS', ArgD')
        IN  /\ overlap => Failed(last'.code)
            /\ ArgD' <= AvailableOf(balances, ArgE', ArgT')
                   => (last'.code = "OverlappingRequest" <=> overlap)

\* C5: after any sequence of calls no two persisted requests of one employee
\* have overlapping inclusive intervals [start, start + days - 1], and
\* apply_leave rejects a candidate iff candidate.start <= existing.end and
\* candidate.end >= existing.start for some request of that employee, of any
\* status and leave type (a candidate that passes the balance check is
\* rejected exactly in that case).
C5_OverlapRule == [](C5_NoOverlap) /\ [][C5_RejectedIffOverlap]_vars

\* a candidate was rejected for overlapping a request of another leave type
C5_Witness ==
    /\ Applied /\ last.code = "OverlappingRequest"
    /\ \E i \in DOMAIN requests :
           /\ requests[i].employee_id = ArgE
           /\ requests[i].leave_type # ArgT
           /\ ExactOverlap(ArgS, ArgD, requests[i])

\* ------------------------------------------------------------------ C6
\* C6: with no overlapping request, apply_leave succeeds when days is at most
\* the available balance of the leave type, leaving exactly 0 when days equals
\* it, and fails with InsufficientBalance when days is greater.
C6_InclusiveBoundary ==
    [][(Applied' /\ ~SomeOverlap(requests, ArgE', ArgS', ArgD')) =>
           LET available == AvailableOf(balances, ArgE', ArgT')
           IN  /\ ArgD' <= available =>
                     /\ last'.code = "OK"
                     /\ FieldOf(balances'[ArgE'], ArgT') = available - ArgD'
               /\ ArgD' > available => last'.code = "InsufficientBalance"]_vars

\* a request for the whole balance was approved and has left exactly 0
C6_Witness ==
    /\ Applied /\ last.code = "OK"
    /\ ArgD > 0
    /\ FieldOf(balances[ArgE], ArgT) = 0

\* ------------------------------------------------------------------ C7
\* the only request of e is r, covering S .. E in whole days
OnlyRequest(reqs, e, r) ==
    /\ r.employee_id = e
    /\ WholeDays(r.days)
    /\ \A i \in DOMAIN reqs : reqs[i].employee_id = e => reqs[i] = r

LastDay(start_date, days) == start_date + (days \div Unit) - 1

\* C7: with a request covering S .. E (whole days), a new whole-day request
\* that starts on E or ends on S is rejected, as overlapping when the balance
\* suffices; a new one-day request on E + 1, and a new request that ends on
\* S - 1, is accepted when the balance suffices.
C7_TouchingAndAdjacent ==
    [][(Applied' /\ WholeDays(ArgD')) =>
           \A i \in DOMAIN requests :
               LET r == requests[i]
                   S == r.start_date
                   E == LastDay(r.start_date, r.days)
                   candEnd == LastDay(ArgS', ArgD')
                   fits == ArgD' <= AvailableOf(balances, ArgE', ArgT')
               IN  (r.employee_id = ArgE' /\ WholeDays(r.days)) =>
                       /\ (ArgS' = E \/ candEnd = S)
                              => /\ Failed(last'.code)
                                 /\ fits => last'.code = "OverlappingRequest"
                       /\ (/\ OnlyRequest(requests, ArgE', r)
                           /\ fits
                           /\ \/ ArgS' = E + 1 /\ ArgD' = Unit
                              \/ candEnd = S - 1)
                              => last'.code = "OK"]_vars

\* a one-day request on the day after the last day of a two-day request of
\* the same employee was just accepted
C7_Witness ==
    /\ Applied /\ last.code = "OK"
    /\ Len(requests) = 2
    /\ requests[1].employee_id = requests[2].employee_id
    /\ requests[1].days = 2 * Unit /\ requests[2].days = Unit
    /\ requests[2].start_date = LastDay(requests[1].start_date, requests[1].days) + 1

\* ------------------------------------------------------------------ C8
\* an apply-leave call that passed authentication: the REST endpoint with the
\* caller's own id in the path, or the MCP tool
ApplyEntry ==
    \/ last.op = "apply_leave_rest" /\ last.code \notin {"401", "403"}
    \/ last.op = "apply_leave_tool" /\ last.code # "AUTH_FAILED"

\* the days of the call: both entry points record (who, ..., leave_type, days,
\* start_date)
EntryDays == last.args[Len(last.args) - 1]

\* C8: on every authenticated entry path to apply_leave, the REST endpoint and
\* the MCP tool, a request with days <= 0 is answered with a validation error
\* and creates no request row and changes no balance.
C8_NonPositiveDaysRejected ==
    [][(ApplyEntry' /\ EntryDays' <= 0)
           => /\ last'.code = "VALIDATION_ERROR"
              /\ balances' = balances
              /\ requests' = requests]_vars

\* ------------------------------------------------------------------ C9
\* C9: the credit-leave endpoint answers days <= 0 with a validation error and
\* leaves every balance unchanged.
C9_NonPositiveCreditRejected ==
    [][(/\ last'.op = "credit_leave_rest"
        /\ last'.code \notin {"401", "403"}
        /\ last'.args[4] <= 0)
           => (last'.code = "VALIDATION_ERROR" /\ balances' = balances)]_vars

\* ------------------------------------------------------------------ C10
\* no two employees share an id or a username
C10_UniqueIdentity ==
    \A r1, r2 \in employees :
        (r1.id = r2.id \/ r1.username = r2.username) => r1 = r2

\* a create with a taken id or a taken username is refused as a duplicate and
\* changes neither table
C10_DuplicateRefused ==
    (/\ last'.op = "create_employee"
     /\ \E r \in employees : r.id = last'.args[1] \/ r.username = last'.args[2])
        => /\ last'.code = "VALIDATION_ERROR"
           /\ employees' = employees
           /\ balances' = balances

\* C10: a create with an id that exists, or with a username that belongs to
\* another employee, fails with the duplicate error and leaves the employee
\* table and the balance table unchanged; no two employees ever share an id or
\* a username.
C10_DuplicateIdentity == [](C10_UniqueIdentity) /\ [][C10_DuplicateRefused]_vars

\* a create with a new id and a taken username was refused, and the new id
\* has no balance row
C10_Witness ==
    /\ last.op = "create_employee" /\ last.code = "VALIDATION_ERROR"
    /\ ~(\E r \in employees : r.id = last.args[1])
    /\ \E r \in employees : r.username = last.args[2]
    /\ last.args[1] \notin DOMAIN balances

\* ------------------------------------------------------------------ C11
\* the create call just made named an id, a username and an e-mail that no
\* employee has, and an id without a balance row
FreshIdentity ==
    /\ ~id_exists(employees, last'.args[1])
    /\ ~username_exists(employees, last'.args[2])
    /\ ~(\E r \in employees : r.email = last'.args[3])
    /\ last'.args[1] \notin DOMAIN balances

\* C11: a create with an id and a username no employee has succeeds, and the
\* employee row and a balance row with the defaults (10, 15, 90, 0) are
\* committed together: after every create call, successful or failed, both
\* rows of the id were added or the call added neither.
C11_CreateCommitsBoth ==
    [][last'.op = "create_employee" =>
           LET id == last'.args[1]
           IN  /\ FreshIdentity =>
                     /\ last'.code = "OK"
                     /\ id_exists(employees', id)
                     /\ id \in DOMAIN balances'
                     /\ balances'[id] = BalanceRow(10 * Unit, 15 * Unit, 90 * Unit, 0)
               /\ \/ employees' = employees /\ balances' = balances
                  \/ /\ ~id_exists(employees, id) /\ id_exists(employees', id)
                     /\ id \notin DOMAIN balances /\ id \in DOMAIN balances']_vars

\* ------------------------------------------------------------------ C12
\* the operations that act for an authenticated caller, whose id they record
\* first: the REST endpoints behind get_current_employee, and the tools that
\* take a token
RestCallerOps ==
    {"reset_password", "initialize_employee_rest", "get_leave_balance_rest",
     "apply_leave_rest", "credit_leave_rest", "list_employee_leave_requests_rest"}

TokenTools ==
    {"who_am_i", "admin_list_employees", "admin_create_employee", "get_leave_balance",
     "list_my_leave_requests", "apply_leave_tool"}

\* the employee's active flag is false
Inactive(employee_id) == \E r \in employees : r.id = employee_id /\ ~r.is_active

\* C12: identity verification succeeds only for active employees: a login
\* with the credentials of an inactive employee is answered AUTH_FAILED and
\* stores no token, and no REST endpoint and no token-taking tool acts for an
\* inactive employee.
C12_OnlyActiveEmployees ==
    [][/\ (/\ last'.op = "login"
           /\ \E r \in employees : r.username = last'.args[1] /\ ~r.is_active)
              => (last'.code = "AUTH_FAILED" /\ TOKENS' = TOKENS)
       /\ (/\ last'.op \in RestCallerOps \cup TokenTools
           /\ last'.args[1] # "anonymous")
              => ~Inactive(last'.args[1])]_vars

\* a tool has acted for an inactive employee
C12_InactiveActs ==
    /\ last.op \in TokenTools /\ last.code = "OK"
    /\ Inactive(last.args[1])

\* ------------------------------------------------------------------ C13
\* the rows of the three tables that belong to an employee
RowsOf(emps, bal, reqs, employee_id) ==
    [employee |-> {r \in emps : r.id = employee_id},
     balance |-> IF employee_id \in DOMAIN bal THEN {bal[employee_id]} ELSE {},
     requests |-> {i \in DOMAIN reqs : reqs[i].employee_id = employee_id}]

\* every id that owns a row before or after the step
OwnerIds ==
    {r.id : r \in employees \cup employees'}
        \cup DOMAIN balances \cup DOMAIN balances'
        \cup {requests[i].employee_id : i \in DOMAIN requests}
        \cup {requests'[i].employee_id : i \in DOMAIN requests'}

\* the step changed no row of an employee other than the caller, and no
\* request row that existed
OnlyRowsOf(caller) ==
    /\ \A e \in OwnerIds \ {caller} :
           RowsOf(employees', balances', requests', e) = RowsOf(employees, balances, requests, e)
    /\ \A i \in DOMAIN requests : i \in DOMAIN requests' /\ requests'[i] = requests[i]

\* the tools an employee uses for herself
OwnTools == TokenTools \ {"admin_list_employees", "admin_create_employee"}

\* what the call returned belongs to the caller
ReadsOnly(caller) ==
    /\ last'.op \in {"get_leave_balance_rest", "get_leave_balance"}
           => last'.value = balances'[caller]
    /\ last'.op \in {"list_employee_leave_requests_rest", "list_my_leave_requests"}
           => \A k \in DOMAIN last'.value : last'.value[k].employee_id = caller
    /\ last'.op = "who_am_i" => last'.value = caller

\* C13: a caller acts on their own employee id only.  A REST call whose path
\* names another employee than the authenticated one is refused and changes
\* no state; a token-taking tool acts for the employee the token stands for;
\* and whatever a leave operation reads or changes belongs to the caller.
C13_OwnIdOnly ==
    [][/\ (last'.op \in RestCallerOps /\ last'.args[1] # last'.args[2])
              => /\ last'.code \in {"401", "403", "422"}
                 /\ UNCHANGED <<employees, balances, requests, TOKENS>>
       /\ (last'.op \in TokenTools /\ last'.args[1] # "anonymous")
              => /\ last'.args[2] \in DOMAIN TOKENS
                 /\ last'.args[1] = TOKENS[last'.args[2]]
       /\ (last'.op \in RestCallerOps \cup OwnTools /\ last'.code = "OK")
              => /\ last'.args[1] # "anonymous"
                 /\ OnlyRowsOf(last'.args[1])
                 /\ ReadsOnly(last'.args[1])]_vars

\* e1, authenticated, was refused on the path of admin after she had taken
\* leave herself: admin has no balance row and no request
C13_Witness ==
    /\ last.op \in RestCallerOps /\ last.code = "403"
    /\ last.args[1] = "e1" /\ last.args[2] = "admin"
    /\ \E i \in DOMAIN requests : requests[i].employee_id = "e1"
    /\ "admin" \notin DOMAIN balances

\* ------------------------------------------------------------------ C14
\* TOKENS without one token
Revoked(tokens, token) == [t \in DOMAIN tokens \ {token} |-> tokens[t]]

\* C14: the token store holds exactly the tokens that a successful login has
\* issued and no logout has revoked since, each standing for the employee who
\* logged in: only a successful login adds a token, only logout removes one and
\* it removes that token alone; a token-taking tool accepts a token, for the
\* employee it stands for, iff it is in the store, and answers AUTH_FAILED and
\* changes no state otherwise, as does logout.
C14_TokenLifecycle ==
    [][/\ last'.op = "login" =>
              IF last'.code = "OK"
              THEN /\ last'.args[3] \notin DOMAIN TOKENS
                   /\ \E r \in employees :
                          /\ r.username = last'.args[1] /\ r.password = last'.args[2]
                          /\ TOKENS' = (last'.args[3] :> r.id) @@ TOKENS
              ELSE TOKENS' = TOKENS
       /\ last'.op = "logout" =>
              IF last'.args[2] \in DOMAIN TOKENS
              THEN last'.code = "OK" /\ TOKENS' = Revoked(TOKENS, last'.args[2])
              ELSE last'.code = "AUTH_FAILED" /\ TOKENS' = TOKENS
       /\ last'.op \notin {"login", "logout"} => TOKENS' = TOKENS
       /\ last'.op \in TokenTools =>
              IF last'.args[2] \in DOMAIN TOKENS
              THEN /\ last'.code # "AUTH_FAILED"
                   /\ last'.args[1] \in {"anonymous", TOKENS[last'.args[2]]}
              ELSE /\ last'.code = "AUTH_FAILED"
                   /\ UNCHANGED <<employees, balances, requests>>]_vars

\* a token is in the store although the login that put it there did not
\* succeed
C14_TokenOfFailedLogin ==
    /\ last.op = "login" /\ last.code # "OK"
    /\ Len(last.args) = 3 /\ last.args[3] \in DOMAIN TOKENS

\* ------------------------------------------------------------------ C15
\* C15: get_or_create_balance is idempotent.  A call for an id without a row
\* persists exactly the defaults (10, 15, 90, 0) and returns them; a call for
\* an id with a row changes none of its values and returns them; so a second
\* call, with no mutation between, finds the table as the first left it and
\* returns the same values.
C15_GetOrCreateIdempotent ==
    [][last'.op = "get_or_create_balance" =>
           LET e == last'.args[1]
               defaults == BalanceRow(10 * Unit, 15 * Unit, 90 * Unit, 0)
           IN  /\ e \in DOMAIN balances'
               /\ last'.value = balances'[e]
               /\ e \in DOMAIN balances => balances' = balances
               /\ e \notin DOMAIN balances => balances' = (e :> defaults) @@ balances
               /\ get_or_create_balance(balances', e) = balances']_vars

\* the call found a row that a credit or an approved request had changed, and
\* returned it as it was
C15_Witness ==
    /\ last.op = "get_or_create_balance"
    /\ last.value # DefaultBalance
    /\ balances[last.args[1]] = last.value

\* ------------------------------------------------------------------ C16
\* C16: initialize overwrites, never adds: after initialize(e, c, p, m, o) the
\* balance of e is exactly (c, p, m, o), whatever it was before (absent,
\* default, or changed by an initialize, a credit or approved requests), and e
\* has one balance row; the requests and the balance rows of the other
\* employees are unchanged.
C16_InitializeOverwrites ==
    [][last'.op = "initialize_employee_balance" =>
           LET e == last'.args[1]
           IN  /\ DOMAIN balances' = DOMAIN balances \cup {e}
               /\ balances'[e] = BalanceRow(last'.args[2], last'.args[3],
                                            last'.args[4], last'.args[5])
               /\ \A x \in DOMAIN balances \ {e} : balances'[x] = balances[x]
               /\ requests' = requests
               /\ employees' = employees]_vars

\* initialize has overwritten a balance that a credit and an approved request
\* had changed, while another employee holds a balance too
C16_Witness ==
    /\ last.op = "initialize_employee_balance"
    /\ balances[last.args[1]] = BalanceRow(last.args[2], last.args[3],
                                           last.args[4], last.args[5])
    /\ \E t \in LeaveTypeEnum : credited[last.args[1]][t] # 0
    /\ \E i \in DOMAIN requests : requests[i].employee_id = last.args[1]
    /\ \E x \in DOMAIN balances : x # last.args[1]

\* ------------------------------------------------------------------ C17
\* C17: list_employee_requests(e) returns exactly the persisted requests of e,
\* each once, newest first: of two requests of e created at t1 < t2, the one
\* created at t2 comes before the one created at t1.
C17_ListingNewestFirst ==
    [][last'.op = "list_employee_requests" =>
           LET e == last'.args[1]
               rows == last'.value
               mine == {i \in DOMAIN requests : requests[i].employee_id = e}
           IN  /\ Len(rows) = Cardinality(mine)
               /\ \A i \in mine : \E k \in DOMAIN rows : rows[k] = requests[i]
               /\ \A k \in DOMAIN rows : \E i \in mine : rows[k] = requests[i]
               /\ \A j, k \in DOMAIN rows :
                      rows[j].created_at > rows[k].created_at => j < k]_vars

\* a listing of two requests created at different times, the later one first
C17_Witness ==
    /\ last.op = "list_employee_requests"
    /\ Len(last.value) = 2
    /\ last.value[1].created_at > last.value[2].created_at
    /\ last.value[1].id > last.value[2].id

\* ------------------------------------------------------------------ C18
\* the operations of the ledger and the engine, which record the employee id
\* first
LedgerOps ==
    {"initialize_employee_balance", "get_or_create_balance", "credit_leave", "apply_leave"}

\* every balance row and every request row carries the id of an employee
C18_RowsHaveEmployees ==
    /\ \A e \in DOMAIN balances : id_exists(employees, e)
    /\ \A i \in DOMAIN requests : id_exists(employees, requests[i].employee_id)

\* a call for an id that is not in the directory reports NotFound and creates
\* no row
C18_UnknownIdRefused ==
    (last'.op \in LedgerOps /\ ~id_exists(employees, last'.args[1]))
        => /\ last'.code = "NotFound"
           /\ balances' = balances
           /\ requests' = requests

\* C18: every balance row and every request row carries the id of an existing
\* employee, and apply_leave, credit_leave, get_or_create_balance and
\* initialize_employee_balance for an id that is not in the directory report
\* NotFound and create no balance row and no request row.
C18_ReferentialIntegrity == [](C18_RowsHaveEmployees) /\ [][C18_UnknownIdRefused]_vars

\* a request row and a balance row of an id that is no employee's
C18_OrphanRows ==
    /\ \E e \in DOMAIN balances : ~id_exists(employees, e)
    /\ \E i \in DOMAIN requests : ~id_exists(employees, requests[i].employee_id)

\* ------------------------------------------------------------------ C19
\* every stored request is APPROVED, and the ids rise in the order of creation
C19_ApprovedAndNumbered ==
    \A i \in DOMAIN requests :
        /\ requests[i].status = "APPROVED"
        /\ \A j \in DOMAIN requests :
               i < j => /\ requests[i].id < requests[j].id
                        /\ requests[i].created_at <= requests[j].created_at

\* a step removes no request row and changes no field of one
C19_RowsKept ==
    \A i \in DOMAIN requests : i \in DOMAIN requests' /\ requests'[i] = requests[i]

\* C19: leave requests are append-only and immutable: no operation (apply
\* leave, credit, initialize, create, reset password, login, logout) removes a
\* persisted request or changes a field of it; its status is APPROVED in every
\* state; and request ids are assigned in strictly increasing order of
\* creation.
C19_AppendOnly == [](C19_ApprovedAndNumbered) /\ [][C19_RowsKept]_vars

\* two requests are stored, and an operation other than apply leave has run
\* since
C19_Witness ==
    /\ Len(requests) = 2
    /\ requests[1].id < requests[2].id
    /\ last.op \in {"credit_leave_rest", "reset_password", "logout"}
    /\ last.code = "OK"

\* ------------------------------------------------------------------ C20
AdminTools == {"admin_list_employees", "admin_create_employee"}

\* the employee is an admin: the row has the flag, and it is set
AdminCaller(employee_id) ==
    /\ has_attribute(EmployeeColumns, "is_admin")
    /\ is_admin(employees, employee_id)

\* C20: admin_create_employee and admin_list_employees answer AUTH_FAILED for
\* an invalid token and FORBIDDEN for the token of an employee who is no admin,
\* and change no state then; an employee is created through the tools only by
\* an admin, and the created employee is no admin.
C20_AdminOnly ==
    [][last'.op \in AdminTools =>
           /\ last'.args[1] = "anonymous"
                  => (last'.code = "AUTH_FAILED" /\ UNCHANGED <<dbVars, TOKENS>>)
           /\ (last'.args[1] # "anonymous" /\ ~AdminCaller(last'.args[1]))
                  => (last'.code = "FORBIDDEN" /\ UNCHANGED <<dbVars, TOKENS>>)
           /\ employees' # employees
                  => /\ AdminCaller(last'.args[1])
                     /\ \A r \in employees' \ employees :
                            "is_admin" \in DOMAIN r => ~r.is_admin]_vars

\* an admin tool called with the token of an employee has ended in an
\* unhandled exception
C20_AdminToolFails ==
    /\ last.op \in AdminTools
    /\ last.args[1] # "anonymous"
    /\ last.code = ServerError

\* ------------------------------------------------------------------ authentication, over both interfaces
\* every credential against the path of e1, on every REST endpoint behind
\* get_current_employee with one body each, and the login and logout tools
\* with one token; a reset makes the former password of e1 a wrong one
AuthCallersIn == CredentialsIn \X {"e1"}

AuthLoginIn == LoginIn \cup {<<"alice", "pw2">>}

NextAuth ==
    \/ \E c \in AuthCallersIn : RestApplyLeave(c[1], c[2], <<"CL", Unit, 1>>)
    \/ \E c \in AuthCallersIn : RestCreditLeave(c[1], c[2], <<"CL", Unit>>)
    \/ \E c \in AuthCallersIn, pw \in PasswordsIn : RestResetPassword(c[1], c[2], pw)
    \/ \E c \in AuthCallersIn : RestInitialize(c[1], c[2], "text")
    \/ \E c \in AuthCallersIn : RestGetLeaveBalance(c[1], c[2])
    \/ \E c \in AuthCallersIn : RestListRequests(c[1], c[2])
    \/ \E c \in AuthLoginIn : McpLogin(c[1], c[2], "t1")
    \/ McpLogout("t1")

SpecAuth == Init /\ [][NextAuth]_vars

\* ------------------------------------------------------------------ C21
\* no employee has the username
UnknownUser(username) == ~(\E r \in employees : r.username = username)

\* an employee has the username, and another password
WrongSecret(username, password) ==
    \E r \in employees : r.username = username /\ r.password # password

\* the credentials are those of an unknown user, or a wrong secret of a known one
BadCredentials(c) == UnknownUser(c[1]) \/ WrongSecret(c[1], c[2])

\* the call just made kept every table and the token store
NoStateChange == UNCHANGED <<employees, balances, requests, TOKENS>>

\* C21: authentication failure is surfaced generically.  A REST call with
\* Basic credentials of an unknown username and one with a wrong secret of a
\* known username get the same response (status 401 and the same detail), a
\* login with an unknown username and one with a wrong password get the same
\* response (AUTH_FAILED and the same message), and none of them changes any
\* state.
C21_GenericAuthFailure ==
    [][/\ (/\ last'.op \in RestCallerOps
           /\ "credentials" \in DOMAIN last'
           /\ BadCredentials(last'.credentials))
              => /\ last'.code = "401"
                 /\ \A c \in CredentialsIn :
                        BadCredentials(c) =>
                            authentication_error(employees, c[1], c[2])
                                = HTTPException(last'.code, last'.detail)
                 /\ NoStateChange
       /\ (/\ last'.op = "login"
           /\ BadCredentials(last'.args))
              => /\ last'.code = "AUTH_FAILED"
                 /\ last'.message = "Invalid username or password"
                 /\ NoStateChange]_vars

\* after a password reset and a login, a REST call with the former password
\* of e1 was answered 401
C21_Witness ==
    /\ last.op \in RestCallerOps /\ last.code = "401"
    /\ last.credentials = <<"alice", "pw1">>
    /\ WrongSecret("alice", "pw1")
    /\ TOKENS # EmptyTable

\* ------------------------------------------------------------------ C22
\* the operations through which an employee applies for leave; they record
\* (caller, path id or token, leave_type, days, start_date)
ApplyOps == {"apply_leave_rest", "apply_leave_tool"}

\* C22: a successful apply leave of e adds exactly one request row (e, that
\* type, those days, that start date, APPROVED), takes exactly the days off
\* the balance of e in that category, leaves the other three categories of e
\* and the rows of every other employee as they were, and returns the request
\* with the balance as it is after the debit.
C22_ApplyEffectAndFrame ==
    [][(last'.op \in ApplyOps /\ last'.code = "OK") =>
           LET e == last'.args[1]
               t == last'.args[3]
               d == last'.args[4]
               sd == last'.args[5]
               row == requests'[Len(requests')]
           IN  /\ Len(requests') = Len(requests) + 1
               /\ \A i \in DOMAIN requests : requests'[i] = requests[i]
               /\ row.employee_id = e /\ row.leave_type = t /\ row.days = d
               /\ row.start_date = sd /\ row.status = "APPROVED"
               /\ DOMAIN balances' = DOMAIN balances \cup {e}
               /\ FieldOf(balances'[e], t) = AvailableOf(balances, e, t) - d
               /\ \A u \in LeaveTypeEnum \ {t} :
                      FieldOf(balances'[e], u) = AvailableOf(balances, e, u)
               /\ \A x \in DOMAIN balances \ {e} : balances'[x] = balances[x]
               /\ employees' = employees
               /\ last'.value.request.id = row.id
               /\ last'.value.request.employee_id = e
               /\ \A u \in LeaveTypeEnum :
                      last'.value.balances[u] = FieldOf(balances'[e], u)]_vars

\* an employee's first request was approved while another employee holds a
\* balance and a request: the returned balance is the default less the days
C22_Witness ==
    /\ last.op \in ApplyOps /\ last.code = "OK"
    /\ Len(requests) = 2
    /\ requests[1].employee_id # last.args[1]
    /\ requests[2].employee_id = last.args[1]
    /\ last.value.balances["CL"] = DEFAULT_CL - last.args[4]
    /\ last.args[4] > 0

\* ------------------------------------------------------------------ C23
\* the last call was a credit: of the repository, (e, type, days), or of the
\* REST endpoint, (caller, e, type, days)
Credited == last.op = "credit_leave" \/ (last.op = "credit_leave_rest" /\ last.code = "OK")

CreditArgs == IF last.op = "credit_leave" THEN last.args ELSE Tail(last.args)

\* C23: credit(e, type, days) raises the balance of e in the named category
\* by exactly days, from the defaults when e had no balance row and with no
\* upper bound, leaves the other three categories of e unchanged, creates and
\* changes no request row, persists no adjustment record (no table other than
\* leave_balances changes) and leaves every other employee's state unchanged.
C23_CreditEffectAndFrame ==
    [][Credited' =>
           LET e == CreditArgs'[1]
               t == CreditArgs'[2]
               d == CreditArgs'[3]
           IN  /\ DOMAIN balances' = DOMAIN balances \cup {e}
               /\ FieldOf(balances'[e], t) = AvailableOf(balances, e, t) + d
               /\ \A u \in LeaveTypeEnum \ {t} :
                      FieldOf(balances'[e], u) = AvailableOf(balances, e, u)
               /\ \A x \in DOMAIN balances \ {e} : balances'[x] = balances[x]
               /\ requests' = requests
               /\ employees' = employees
               /\ TOKENS' = TOKENS]_vars

\* a second credit has lifted a balance two days above its default, while a
\* request is stored and another employee holds a balance row
C23_Witness ==
    /\ Credited
    /\ FieldOf(balances[CreditArgs[1]], CreditArgs[2])
           = FieldOf(DefaultBalance, CreditArgs[2]) + 2 * Unit
    /\ requests # <<>>
    /\ \E x \in DOMAIN balances : x # CreditArgs[1]

\* ------------------------------------------------------------------ C24
\* a day count that is no whole number of days
Fractional(d) == d > 0 /\ d % Unit # 0

\* the request covers the date: it has begun, and its last day, or its start
\* date when it lasts less than a day, has not passed
Covers(r, day) ==
    /\ r.start_date <= day
    /\ day * Unit <= ExactEnd(r.start_date, r.days) \/ day = r.start_date

\* the interval the overlap check gives a stored request begins at its start
\* date and ends no earlier
C24_IntervalHoldsStart ==
    \A i \in DOMAIN requests :
        requests[i].days > 0
            => inclusive_end(requests[i].start_date, requests[i].days)
                   >= requests[i].start_date

\* a candidate on the start date of a fractional request, and a fractional
\* candidate on a date a request covers, is rejected: as overlapping when the
\* balance suffices
C24_FractionalRejected ==
    Applied' =>
        \A i \in DOMAIN requests :
            LET r == requests[i]
            IN  (/\ r.employee_id = ArgE'
                 /\ ArgD' > 0
                 /\ \/ Fractional(r.days) /\ ArgS' = r.start_date
                    \/ Fractional(ArgD') /\ Covers(r, ArgS'))
                    => /\ Failed(last'.code)
                       /\ ArgD' <= AvailableOf(balances, ArgE', ArgT')
                              => last'.code = "OverlappingRequest"

\* C24: a request with a fractional day count still blocks its own start
\* date.  The interval the overlap check uses for every request begins at its
\* start date and ends no earlier than its start date; after a half-day
\* request starting on S is approved, a new request of the same employee
\* starting on S is rejected as overlapping; and a new half-day request
\* starting on a date that an existing request covers is rejected.
C24_FractionalBlocksStart == [](C24_IntervalHoldsStart) /\ [][C24_FractionalRejected]_vars

\* two approved requests of one employee start on the same date
C24_SameStartTwice ==
    \E i, j \in DOMAIN requests :
        /\ i < j
        /\ requests[i].employee_id = requests[j].employee_id
        /\ requests[i].start_date = requests[j].start_date

\* ------------------------------------------------------------------ C25
\* the calls that are being served
InProgress == {w \in DOMAIN pc : pc[w] # "idle"}

\* C25: every REST request and every tool call that opens a database session
\* closes it however it ends (success, a business-rule failure returned from
\* inside the loop, an authentication failure, an unexpected exception): in
\* every reachable state the open sessions are those of the calls that have
\* not returned yet, so none is open once its operation has returned.
C25_SessionsReleased == sessions = Cardinality(InProgress)

\* a tool left its loop by an exception that nothing catches, after a request
\* had been stored and a token issued, and no session is open
C25_Witness ==
    /\ last.op \in TokenTools \cup {"login"}
    /\ last.code = ServerError
    /\ TOKENS # EmptyTable
    /\ requests # <<>>
    /\ sessions = 0

\* ------------------------------------------------------------------ C26
\* C26: no update is lost between a credit and an apply leave that run at the
\* same time for one employee and leave type: once the calls have returned,
\* the balance is the balance before them plus the days credited minus the
\* days of the approved requests, whatever the interleaving.
C26_NoLostUpdate ==
    (Quiescent /\ ncalls > 0) =>
        \A e \in LedgerIds, t \in TypesIn :
            AvailableOf(balances, e, t)
                = StartOf(e, t) + credited[e][t] - ApprovedDays(requests, e, t)

\* a credit and an approved request of one employee and leave type have both
\* returned, and the balance shows only one of them
C26_UpdateLost ==
    /\ Quiescent
    /\ \E e \in LedgerIds, t \in TypesIn :
           /\ credited[e][t] > 0
           /\ ApprovedDays(requests, e, t) > 0
           /\ AvailableOf(balances, e, t)
                  # StartOf(e, t) + credited[e][t] - ApprovedDays(requests, e, t)

\* ------------------------------------------------------------------ C27
\* C27: in sequential use, from default or non-negatively initialized
\* balances and with credit and apply leave called with days > 0 only, each of
\* the four balances of every employee is at least 0 in every reachable state.
C27_BalancesNonNegative ==
    \A e \in DOMAIN balances, t \in LeaveTypeEnum : FieldOf(balances[e], t) >= 0

\* a request has taken the whole of a balance that consisted of credited
\* days, and a larger request would have been refused
C27_Witness ==
    /\ Applied /\ last.code = "OK"
    /\ credited[ArgE][ArgT] > 0
    /\ FieldOf(balances[ArgE], ArgT) = 0
    /\ ArgD = FieldOf(DefaultBalance, ArgT) + credited[ArgE][ArgT]

====
